---- MODULE Spec2Model ----
(***************************************************************************)
(* Structured error responses of package goa (src/http/error.go): error    *)
(* classes, the validation helpers built on them, asErrorResponse and      *)
(* MergeErrors.  Errors are *ErrorResponse pointers into a heap, so that   *)
(* the in-place update MergeErrors makes on its first argument, and the    *)
(* aliasing of its two arguments, are part of the model.                   *)
(***************************************************************************)
EXTENDS Integers, Sequences, FiniteSets, TLC

VARIABLES
    heap,     \* the ErrorResponse structs allocated so far, by address 1..Len(heap)
    source,   \* the behaviour of rand.Reader in this run
    reads,    \* number of reads made from rand.Reader so far
    pre,      \* the heap as it was before the last operation
    last,     \* the last operation: its name, arguments and returned error
    acc,      \* the error a request accumulates with err = MergeErrors(err, x)
    sawFailure, \* whether that request has passed a non-nil failure to MergeErrors
    accID,    \* the ID acc had when the first non-nil failure was absorbed
    merges    \* number of MergeErrors calls made with two non-nil arguments

vars == <<heap, source, reads, pre, last, acc, sawFailure, accID, merges>>

----------------------------------------------------------------------------
(* Bounds of the model.                                                    *)

MaxHeap == 2
MaxKeyvals == 3
MaxMerges == 1
MaxFoldMerges == 2

----------------------------------------------------------------------------
(* Go values (interface{}): a tag, a text and a number.                    *)
(*   "nil"      the nil error                                              *)
(*   "ptr"      a *ErrorResponse, n its address in heap                    *)
(*   "error"    an error that is not a *ErrorResponse, s its Error() text  *)
(*   "string"   a string s                                                 *)
(*   "stringer" a fmt.Stringer, s its String() text                        *)
(*   "int"      an int n                                                   *)

Val(t, s, n) == [t |-> t, s |-> s, n |-> n]
Nil == Val("nil", "", 0)
Ptr(i) == Val("ptr", "", i)
PlainErr(s) == Val("error", s, 0)
Str(s) == Val("string", s, 0)
Stringer(s) == Val("stringer", s, 0)
IntVal(n) == Val("int", "", n)

Digits == <<"0", "1", "2", "3", "4", "5", "6", "7", "8", "9">>

RECURSIVE Itoa(_)
Itoa(n) ==
    IF n < 0 THEN "-" \o Itoa(0 - n)
    ELSE IF n < 10 THEN Digits[n + 1]
    ELSE Itoa(n \div 10) \o Digits[(n % 10) + 1]

\* fmt.Sprintf("%v", v): strings print bare, errors and Stringers by their
\* method's text, ints in decimal.
SprintV(v) ==
    CASE v.t = "string" -> v.s
      [] v.t = "error" -> v.s
      [] v.t = "stringer" -> v.s
      [] v.t = "int" -> Itoa(v.n)
      [] OTHER -> "<nil>"

\* fmt.Sprintf("%#v", v) for the strings and ints the helpers are given:
\* a string prints Go-quoted, an int in decimal.
SprintSharpV(v) ==
    CASE v.t = "string" -> "\"" \o v.s \o "\""
      [] v.t = "int" -> Itoa(v.n)
      [] OTHER -> SprintV(v)

----------------------------------------------------------------------------
(* newErrorID: 6 bytes read from crypto/rand, base64.StdEncoding.          *)
(* A read is [n, bytes]: io.ReadFull filled the first n bytes of b with    *)
(* bytes[1..n]; its error is ignored, so the rest of b stays zero.         *)

B64 == <<"A","B","C","D","E","F","G","H","I","J","K","L","M","N","O","P",
         "Q","R","S","T","U","V","W","X","Y","Z","a","b","c","d","e","f",
         "g","h","i","j","k","l","m","n","o","p","q","r","s","t","u","v",
         "w","x","y","z","0","1","2","3","4","5","6","7","8","9","+","/">>

\* One 3-byte group as 4 characters of the standard alphabet.
EncodeGroup(b1, b2, b3) ==
    B64[(b1 \div 4) + 1]
      \o B64[((b1 % 4) * 16 + (b2 \div 16)) + 1]
      \o B64[((b2 % 16) * 4 + (b3 \div 64)) + 1]
      \o B64[(b3 % 64) + 1]

EncodeToString(b) ==
    EncodeGroup(b[1], b[2], b[3]) \o EncodeGroup(b[4], b[5], b[6])

IDBytes == 6

ReadFull(read) == [i \in 1..IDBytes |-> IF i <= read.n THEN read.bytes[i] ELSE 0]

newErrorID(read) == EncodeToString(ReadFull(read))

----------------------------------------------------------------------------
(* Error classes.                                                          *)

NewErrorClass(code, status) == [Code |-> code, Status |-> status]

ErrBadRequest == NewErrorClass("bad_request", 400)
ErrUnauthorized == NewErrorClass("unauthorized", 401)
ErrInvalidRequest == NewErrorClass("invalid_request", 400)
ErrInvalidEncoding == NewErrorClass("invalid_encoding", 400)
ErrRequestBodyTooLarge == NewErrorClass("request_too_large", 413)
ErrInvalidFile == NewErrorClass("invalid_file", 404)
ErrNotFound == NewErrorClass("not_found", 404)
ErrInternal == NewErrorClass("internal", 500)

\* The message switch of the class function.
CoerceMessage(message) ==
    CASE message.t = "string" -> message.s
      [] message.t = "error" -> message.s
      [] message.t = "stringer" -> message.s
      [] OTHER -> SprintV(message)

\* ClassMeta with meta sized len(keyvals)/2: a trailing key without a value
\* gets no entry.
ClassMetaDropsOddKey(keyvals) ==
    [j \in 1..(Len(keyvals) \div 2) |->
        SprintV(keyvals[2 * j - 1]) :> keyvals[2 * j]]

\* The keyvals loop of the class function: slot i/2 of meta, for even i
\* (0-based), is the one-key map from Sprintf("%v", keyvals[i]) to
\* keyvals[i+1], or to "MISSING" when there is no keyvals[i+1].
ClassMeta(keyvals) ==
    [j \in 1..((Len(keyvals) + 1) \div 2) |->
        LET i == 2 * (j - 1)
            k == keyvals[i + 1]
            v == IF i + 1 < Len(keyvals) THEN keyvals[i + 2] ELSE Str("MISSING")
        IN  SprintV(k) :> v]

\* The class function without its call of newErrorID: ID stays the zero
\* string, as in the struct asErrorResponse builds.
ErrorClassCallNoID(class, message, keyvals, read) ==
    [ID |-> "",
     Code |-> class.Code,
     Status |-> class.Status,
     Detail |-> CoerceMessage(message),
     Meta |-> ClassMeta(keyvals)]

\* The function NewErrorClass returns, applied: the ErrorResponse it builds.
ErrorClassCall(class, message, keyvals, read) ==
    [ID |-> newErrorID(read),
     Code |-> class.Code,
     Status |-> class.Status,
     Detail |-> CoerceMessage(message),
     Meta |-> ClassMeta(keyvals)]

\* The helpers' message texts and keyvals.
InvalidParamTypeMsg(name, val, expected) ==
    "invalid value " \o SprintSharpV(val) \o " for parameter "
      \o SprintSharpV(Str(name)) \o ", must be a " \o expected

\* InvalidParamTypeError built on ErrBadRequest instead of ErrInvalidRequest.
InvalidParamTypeErrorBadRequest(name, val, expected, read) ==
    ErrorClassCall(ErrBadRequest,
                   Str(InvalidParamTypeMsg(name, val, expected)),
                   <<Str("param"), Str(name), Str("value"), val,
                     Str("expected"), Str(expected)>>,
                   read)

InvalidParamTypeError(name, val, expected, read) ==
    ErrorClassCall(ErrInvalidRequest,
                   Str(InvalidParamTypeMsg(name, val, expected)),
                   <<Str("param"), Str(name), Str("value"), val,
                     Str("expected"), Str(expected)>>,
                   read)

MissingParamMsg(name) == "missing required parameter " \o SprintSharpV(Str(name))

MissingParamError(name, read) ==
    ErrorClassCall(ErrInvalidRequest, Str(MissingParamMsg(name)),
                   <<Str("name"), Str(name)>>, read)

----------------------------------------------------------------------------
(* asErrorResponse and MergeErrors.  Both take the heap and return the     *)
(* heap they leave together with the pointer (or nil) they return.         *)

\* err.Error() of an error that is not a *ErrorResponse.
ErrorText(err) == err.s

asErrorResponse(h, err) ==
    IF err.t = "ptr"
    THEN [heap |-> h, e |-> err.n]
    ELSE [heap |-> Append(h, [ID |-> "",
                              Code |-> "internal_error",
                              Status |-> 500,
                              Detail |-> ErrorText(err),
                              Meta |-> <<>>]),
          e |-> Len(h) + 1]

\* MergeStatusCode that recodes e as "internal_error" even when e was
\* already a 500.
MergeStatusCodeAlwaysRecodes(e, o) ==
    IF e.Status = 500 \/ o.Status = 500
    THEN [Status |-> 500, Code |-> "internal_error"]
    ELSE IF e.Status # o.Status \/ e.Code # o.Code
         THEN [Status |-> 400, Code |-> "bad_request"]
         ELSE [Status |-> e.Status, Code |-> e.Code]

\* MergeStatusCode whose second case compares the statuses only.
MergeStatusCodeIgnoresCode(e, o) ==
    IF e.Status = 500 \/ o.Status = 500
    THEN IF e.Status # 500
         THEN [Status |-> 500, Code |-> "internal_error"]
         ELSE [Status |-> e.Status, Code |-> e.Code]
    ELSE IF e.Status # o.Status
         THEN [Status |-> 400, Code |-> "bad_request"]
         ELSE [Status |-> e.Status, Code |-> e.Code]

\* MergeStatusCode written as two ifs in a row instead of a switch: the
\* comparison runs as well after the 500 case, on the e it has updated.
MergeStatusCodeSequentialIfs(e, o) ==
    LET e1 == IF (e.Status = 500 \/ o.Status = 500) /\ e.Status # 500
              THEN [Status |-> 500, Code |-> "internal_error"]
              ELSE [Status |-> e.Status, Code |-> e.Code]
    IN  IF e1.Status # o.Status \/ e1.Code # o.Code
        THEN [Status |-> 400, Code |-> "bad_request"]
        ELSE e1

\* The switch of MergeErrors: the status and code e ends with.
MergeStatusCode(e, o) ==
    IF e.Status = 500 \/ o.Status = 500
    THEN IF e.Status # 500
         THEN [Status |-> 500, Code |-> "internal_error"]
         ELSE [Status |-> e.Status, Code |-> e.Code]
    ELSE IF e.Status # o.Status \/ e.Code # o.Code
         THEN [Status |-> 400, Code |-> "bad_request"]
         ELSE [Status |-> e.Status, Code |-> e.Code]

\* MergeDetail with a bare semi-colon between the two details.
MergeDetailBareSemicolon(e, o) == e.Detail \o ";" \o o.Detail

MergeDetail(e, o) == e.Detail \o "; " \o o.Detail

\* for k, v := range val: one one-key map per key of val.  Go leaves the
\* order of a map's keys open; every map the package builds has one key
\* (MetaMapsHaveOneKey), for which there is one order.
RangeMap(val) ==
    LET keys == DOMAIN val
        n == Cardinality(keys)
        order == CHOOSE s \in [1..n -> keys] : \A k \in keys : \E i \in 1..n : s[i] = k
    IN  [i \in 1..n |-> order[i] :> val[order[i]]]

\* MergeMeta as the doc comment of MergeErrors has it: an entry of other
\* whose key e already holds overwrites e's entry instead of being appended.
RECURSIVE MergeMetaOverwrites(_, _)
MergeMetaOverwrites(eMeta, oMeta) ==
    IF oMeta = <<>> THEN eMeta
    ELSE LET val == Head(oMeta)
             hit == {i \in 1..Len(eMeta) : DOMAIN eMeta[i] = DOMAIN val}
         IN  IF hit = {}
             THEN MergeMetaOverwrites(Append(eMeta, val), Tail(oMeta))
             ELSE MergeMetaOverwrites([i \in 1..Len(eMeta) |-> IF i \in hit THEN val ELSE eMeta[i]],
                                      Tail(oMeta))

\* for _, val := range o.Meta { ... e.Meta = append(e.Meta, {k: v}) }
RECURSIVE MergeMeta(_, _)
MergeMeta(eMeta, oMeta) ==
    IF oMeta = <<>> THEN eMeta
    ELSE MergeMeta(eMeta \o RangeMap(Head(oMeta)), Tail(oMeta))

\* MergeInto that takes over o's ID.
MergeIntoTakesOtherID(e, o) ==
    [ID |-> o.ID,
     Code |-> MergeStatusCode(e, o).Code,
     Status |-> MergeStatusCode(e, o).Status,
     Detail |-> MergeDetail(e, o),
     Meta |-> MergeMeta(e.Meta, o.Meta)]

\* What the body of MergeErrors, past its nil checks, leaves in *e.  Every
\* read of o precedes the write of the same field of e (o.Meta is
\* evaluated once, when its range starts), so this holds for e == o too.
MergeInto(e, o) ==
    [ID |-> e.ID,
     Code |-> MergeStatusCode(e, o).Code,
     Status |-> MergeStatusCode(e, o).Status,
     Detail |-> MergeDetail(e, o),
     Meta |-> MergeMeta(e.Meta, o.Meta)]

\* MergeErrors past its nil checks that updates o with the merge and
\* returns it, leaving e as it was.
MergeBothIntoOther(h, err, other) ==
    LET re == asErrorResponse(h, err)
        ro == asErrorResponse(re.heap, other)
    IN  [heap |-> [ro.heap EXCEPT ![ro.e] = MergeInto(ro.heap[re.e], ro.heap[ro.e])],
         ret |-> Ptr(ro.e)]

\* MergeErrors past its nil checks: both errors are promoted, e is updated
\* in place and returned.
MergeBoth(h, err, other) ==
    LET re == asErrorResponse(h, err)
        ro == asErrorResponse(re.heap, other)
    IN  [heap |-> [ro.heap EXCEPT ![re.e] = MergeInto(ro.heap[re.e], ro.heap[ro.e])],
         ret |-> Ptr(re.e)]

\* MergeErrors that returns nil as soon as other is nil.
MergeErrorsNilOther(h, err, other) ==
    IF other.t = "nil"
    THEN [heap |-> h, ret |-> Nil]
    ELSE IF err.t = "nil"
    THEN LET r == asErrorResponse(h, other)
         IN  [heap |-> r.heap, ret |-> Ptr(r.e)]
    ELSE MergeBoth(h, err, other)

\* MergeErrors that returns err as it is when other is nil.
MergeErrorsReturnsErr(h, err, other) ==
    IF err.t = "nil"
    THEN IF other.t = "nil"
         THEN [heap |-> h, ret |-> Nil]
         ELSE LET r == asErrorResponse(h, other)
              IN  [heap |-> r.heap, ret |-> Ptr(r.e)]
    ELSE IF other.t = "nil"
    THEN [heap |-> h, ret |-> err]
    ELSE MergeBoth(h, err, other)

MergeErrors(h, err, other) ==
    IF err.t = "nil"
    THEN IF other.t = "nil"
         THEN [heap |-> h, ret |-> Nil]
         ELSE LET r == asErrorResponse(h, other)
              IN  [heap |-> r.heap, ret |-> Ptr(r.e)]
    ELSE IF other.t = "nil"
    THEN LET r == asErrorResponse(h, err)
         IN  [heap |-> r.heap, ret |-> Ptr(r.e)]
    ELSE MergeBoth(h, err, other)

----------------------------------------------------------------------------
(* Inputs.                                                                 *)

\* The classes whose functions the model calls: the 404 pair, which shares
\* a status under two codes, and the 500 class.
Classes == {ErrInvalidFile, ErrNotFound, ErrInternal}

\* One message per arm of the class function's type switch.
Messages == {Str("boom"), PlainErr("eof"), Stringer("late"), IntVal(42)}

\* The values keyvals are drawn from: position i of a list holds
\* KeyvalPool[((i - 1) % Len(KeyvalPool)) + 1].
KeyvalPool == <<Str("name"), IntVal(7), Str("name"), Str("id"), IntVal(7)>>

Keyvals == {[i \in 1..n |-> KeyvalPool[((i - 1) % Len(KeyvalPool)) + 1]] : n \in 0..MaxKeyvals}

\* What io.ReadFull(rand.Reader, b) can leave: all six bytes, or, when the
\* source fails, none of them.
GoodReads == <<[n |-> 6, bytes |-> <<1, 2, 3, 4, 5, 6>>],
               [n |-> 6, bytes |-> <<251, 240, 63, 0, 16, 255>>]>>

FailedRead == [n |-> 0, bytes |-> <<>>]

\* rand.Reader in one run: it yields other bytes on every read, or the same
\* bytes again, or it fails.
Sources == {"fresh", "repeating", "failing"}

\* The k-th read (from 0) of source src.
SourceRead(src, k) ==
    CASE src = "fresh" -> GoodReads[(k % Len(GoodReads)) + 1]
      [] src = "repeating" -> GoodReads[1]
      [] OTHER -> FailedRead

PlainErrors == {PlainErr("eof"), PlainErr("timeout")}

\* The errors a caller can hold: nil, a pointer to an allocated
\* ErrorResponse, or an error of another type.
Errors(h) == {Nil} \cup {Ptr(i) : i \in 1..Len(h)} \cup PlainErrors

NoClass == NewErrorClass("", 0)

Op(op, a, b, ret) ==
    [op |-> op, a |-> a, b |-> b, c |-> Nil, ret |-> ret,
     class |-> NoClass, message |-> Nil, keyvals |-> <<>>]

----------------------------------------------------------------------------
(* The state machine.                                                      *)

Init ==
    /\ heap = <<>>
    /\ source \in Sources
    /\ reads = 0
    /\ pre = <<>>
    /\ last = Op("init", Nil, Nil, Nil)
    /\ acc = Nil
    /\ sawFailure = FALSE
    /\ accID = ""
    /\ merges = 0

\* A class function is called: err := class(message, keyvals...).
Invoke(class, message, keyvals) ==
    /\ Len(heap) < MaxHeap
    /\ heap' = Append(heap, ErrorClassCall(class, message, keyvals, SourceRead(source, reads)))
    /\ reads' = reads + 1
    /\ pre' = heap
    /\ last' = [Op("Invoke", Nil, Nil, Ptr(Len(heap) + 1)) EXCEPT
                  !.class = class, !.message = message, !.keyvals = keyvals]
    /\ UNCHANGED <<source, acc, sawFailure, accID, merges>>

MissingParam(name) ==
    /\ Len(heap) < MaxHeap
    /\ heap' = Append(heap, MissingParamError(name, SourceRead(source, reads)))
    /\ reads' = reads + 1
    /\ pre' = heap
    /\ last' = Op("MissingParamError", Nil, Nil, Ptr(Len(heap) + 1))
    /\ UNCHANGED <<source, acc, sawFailure, accID, merges>>

InvalidParamType(name, val, expected) ==
    /\ Len(heap) < MaxHeap
    /\ heap' = Append(heap, InvalidParamTypeError(name, val, expected, SourceRead(source, reads)))
    /\ reads' = reads + 1
    /\ pre' = heap
    /\ last' = Op("InvalidParamTypeError", Nil, Nil, Ptr(Len(heap) + 1))
    /\ UNCHANGED <<source, acc, sawFailure, accID, merges>>

\* asErrorResponse(x) on its own; MergeErrors never passes it nil.
Promote(x) ==
    LET r == asErrorResponse(heap, x)
    IN  /\ x.t # "nil"
        /\ Len(r.heap) <= MaxHeap
        /\ heap' = r.heap
        /\ pre' = heap
        /\ last' = Op("asErrorResponse", x, Nil, Ptr(r.e))
        /\ UNCHANGED <<source, reads, acc, sawFailure, accID, merges>>

TwoSided(a, b) == a.t # "nil" /\ b.t # "nil"

\* MergeErrors(a, b) on any two errors the caller holds, a and b the same
\* pointer included.
Merge(a, b) ==
    LET r == MergeErrors(heap, a, b)
    IN  /\ Len(r.heap) <= MaxHeap
        /\ TwoSided(a, b) => merges < MaxMerges
        /\ heap' = r.heap
        /\ pre' = heap
        /\ last' = Op("MergeErrors", a, b, r.ret)
        /\ merges' = IF TwoSided(a, b) THEN merges + 1 ELSE merges
        /\ UNCHANGED <<source, reads, acc, sawFailure, accID>>

\* One step of a request's left fold, which starts from nil:
\* err = MergeErrors(err, x).
Absorb(x) ==
    LET r == MergeErrors(heap, acc, x)
    IN  /\ Len(r.heap) <= MaxHeap
        /\ TwoSided(acc, x) => merges < MaxFoldMerges
        /\ heap' = r.heap
        /\ pre' = heap
        /\ last' = Op("Absorb", acc, x, r.ret)
        /\ acc' = r.ret
        /\ sawFailure' = (sawFailure \/ x.t # "nil")
        /\ accID' = IF acc.t = "nil" /\ r.ret.t = "ptr" THEN r.heap[r.ret.n].ID ELSE accID
        /\ merges' = IF TwoSided(acc, x) THEN merges + 1 ELSE merges
        /\ UNCHANGED <<source, reads>>

\* The errors of one request, with a random source that works.
InitRequest == Init /\ source = "fresh"

\* The errors a request builds with the classes and the helpers.
Build ==
    \/ \E class \in Classes : Invoke(class, Str("boom"), <<>>)
    \/ MissingParam("id")
    \/ InvalidParamType("sort", Str("xx"), "integer")

\* asErrorResponse and MergeErrors on any errors so built.
Next ==
    \/ Build
    \/ \E x \in Errors(heap) : Promote(x)
    \/ \E a \in Errors(heap), b \in Errors(heap) : Merge(a, b)

Spec == InitRequest /\ [][Next]_vars

\* A request folding its failures into one error.
NextFold ==
    \/ Build
    \/ \E x \in Errors(heap) : Absorb(x)

SpecFold == InitRequest /\ [][NextFold]_vars

\* The two groupings of three errors, from heap h.
MergeLeft(h, a, b, c) ==
    LET r == MergeErrors(h, a, b)
    IN  MergeErrors(r.heap, r.ret, c)

MergeRight(h, a, b, c) ==
    LET r == MergeErrors(h, b, c)
    IN  MergeErrors(r.heap, a, r.ret)

\* a, b and c are three instances: no two of them the same pointer.
DistinctInstances(a, b, c) ==
    /\ a.t = "ptr" => (a # b /\ a # c)
    /\ b.t = "ptr" => b # c

\* MergeErrors(MergeErrors(a, b), c) on three non-nil errors, as they were
\* built or as the caller holds them: the run merges nothing before it.
MergeThree(a, b, c) ==
    LET r == MergeLeft(heap, a, b, c)
    IN  /\ a.t # "nil" /\ b.t # "nil" /\ c.t # "nil"
        /\ DistinctInstances(a, b, c)
        /\ merges = 0
        /\ heap' = r.heap
        /\ pre' = heap
        /\ last' = [Op("MergeThree", a, b, r.ret) EXCEPT !.c = c]
        /\ merges' = merges + 1
        /\ UNCHANGED <<source, reads, acc, sawFailure, accID>>

\* One class function call more than Build allows, so that three
\* structs exist to be merged.
InvokeThird(class, message, keyvals) ==
    /\ Len(heap) = MaxHeap
    /\ heap' = Append(heap, ErrorClassCall(class, message, keyvals, SourceRead(source, reads)))
    /\ reads' = reads + 1
    /\ pre' = heap
    /\ last' = [Op("Invoke", Nil, Nil, Ptr(Len(heap) + 1)) EXCEPT
                  !.class = class, !.message = message, !.keyvals = keyvals]
    /\ UNCHANGED <<source, acc, sawFailure, accID, merges>>

\* Three errors of a request merged in one expression.
NextThree ==
    \/ Build
    \/ \E class \in Classes : InvokeThird(class, Str("boom"), <<>>)
    \/ \E a \in Errors(heap), b \in Errors(heap), c \in Errors(heap) : MergeThree(a, b, c)

SpecThree == InitRequest /\ [][NextThree]_vars

\* The class functions on their own, over every kind of message, every
\* length of keyvals and every behaviour of the random source.
NextClass ==
    \E class \in Classes, message \in Messages, keyvals \in Keyvals :
        Invoke(class, message, keyvals)

SpecClass == Init /\ [][NextClass]_vars

\* Every map in a Meta the package builds has exactly one key.
MetaMapsHaveOneKey ==
    \A i \in 1..Len(heap) : \A j \in 1..Len(heap[i].Meta) :
        Cardinality(DOMAIN heap[i].Meta[j]) = 1

----------------------------------------------------------------------------
(* Properties.  Each is read off the last call: its arguments as they were *)
(* before it (pre), and what it returned and left (heap).                  *)

MergeCalled == last.op \in {"MergeErrors", "Absorb"}

\* Both arguments non-nil; both *ErrorResponse.
BothGiven == MergeCalled /\ last.a.t # "nil" /\ last.b.t # "nil"
BothStructured == MergeCalled /\ last.a.t = "ptr" /\ last.b.t = "ptr"

\* The structs the arguments pointed to before the call, and the struct the
\* returned pointer points to after it.
ArgA == pre[last.a.n]
ArgB == pre[last.b.n]
Result == heap[last.ret.n]

\* The detail of an error before the call: the Detail of a *ErrorResponse,
\* the Error() text of any other error.
DetailBefore(x) == IF x.t = "ptr" THEN pre[x.n].Detail ELSE x.s

\* C1: merging two structured errors of which one has status 500 returns
\* status 500, with code "internal_error" if a was not a 500 before the
\* call and with a's own code if it was.
C1_Escalation ==
    (BothStructured /\ (ArgA.Status = 500 \/ ArgB.Status = 500)) =>
        /\ last.ret = last.a
        /\ Result.Status = 500
        /\ Result.Code = IF ArgA.Status # 500 THEN "internal_error" ELSE ArgA.Code

\* Reached: a 500 of code "internal" merged with a 404: it keeps its code.
C1_Witness ==
    /\ BothStructured
    /\ ArgA.Status = 500 /\ ArgA.Code = "internal" /\ ArgB.Status = 404
    /\ Result.Code = "internal"

\* C2: merging two structured errors neither of which is a 500 returns
\* 400 "bad_request" if their statuses or their codes differ, and a's
\* status and code, which are b's, if they do not.
C2_Mismatch ==
    (BothStructured /\ ArgA.Status # 500 /\ ArgB.Status # 500) =>
        /\ last.ret = last.a
        /\ IF ArgA.Status # ArgB.Status \/ ArgA.Code # ArgB.Code
           THEN Result.Status = 400 /\ Result.Code = "bad_request"
           ELSE /\ Result.Status = ArgA.Status /\ Result.Code = ArgA.Code
                /\ Result.Status = ArgB.Status /\ Result.Code = ArgB.Code

\* Reached: two 404 of different codes merged.
C2_Witness ==
    /\ BothStructured
    /\ ArgA.Status = 404 /\ ArgB.Status = 404 /\ ArgA.Code # ArgB.Code
    /\ Result.Status = 400

\* C3: asErrorResponse of an error that is not a *ErrorResponse returns a
\* struct with status 500, code "internal_error", the error's text as
\* detail, and a non-empty ID that no struct built before it has.
C3_PromoteMintsID ==
    (last.op = "asErrorResponse" /\ last.a.t = "error") =>
        /\ Result.Status = 500
        /\ Result.Code = "internal_error"
        /\ Result.Detail = last.a.s
        /\ Result.ID # ""
        /\ \A i \in 1..Len(pre) : pre[i].ID # Result.ID

\* C4: a request's fold, started from nil, holds nil exactly when every
\* failure it was passed was nil; and each MergeErrors call of it returns
\* nil exactly when both its arguments are nil.
C4_NilIffAllNil ==
    /\ (acc = Nil) <=> ~sawFailure
    /\ MergeCalled => ((last.ret = Nil) <=> (last.a = Nil /\ last.b = Nil))

\* Reached: the fold has merged two failures and is then passed nil.
C4_Witness ==
    /\ last.op = "Absorb" /\ last.b = Nil
    /\ merges >= 1
    /\ acc # Nil

\* The one non-nil argument of a MergeErrors call given exactly one.
OneGiven == MergeCalled /\ ((last.a = Nil) # (last.b = Nil))
TheOne == IF last.a = Nil THEN last.b ELSE last.a

\* C5: MergeErrors(nil, e) and MergeErrors(e, nil) both return what
\* asErrorResponse(e) returns, field for field; for a *ErrorResponse e
\* that is e itself, with nothing in the heap changed.
C5_OneSided ==
    OneGiven =>
        LET p == asErrorResponse(pre, TheOne)
        IN  /\ last.ret.t = "ptr"
            /\ Result = p.heap[p.e]
            /\ TheOne.t = "ptr" => (last.ret = TheOne /\ heap = pre)

\* Reached: MergeErrors(e, nil) for an e that is not a *ErrorResponse.
C5_Witness ==
    /\ OneGiven
    /\ last.a.t = "error"
    /\ Result.Detail = last.a.s

\* C6: no call changes the ID of a struct that exists; MergeErrors on two
\* non-nil errors returns a struct with the ID a has once promoted; and the
\* error a fold holds keeps the ID it had when the first non-nil failure
\* was absorbed.
C6_IDKept ==
    /\ \A i \in 1..Len(pre) : heap[i].ID = pre[i].ID
    /\ BothGiven =>
           LET p == asErrorResponse(pre, last.a)
           IN  Result.ID = p.heap[p.e].ID
    /\ acc # Nil => heap[acc.n].ID = accID

\* Reached: the fold has merged a second and a third failure, of another
\* ID, into its error.
C6_Witness ==
    /\ last.op = "Absorb" /\ BothGiven
    /\ merges = MaxFoldMerges
    /\ last.b.t = "ptr" /\ ArgB.ID # accID

C8_DetailJoined ==
    BothGiven => Result.Detail = DetailBefore(last.a) \o "; " \o DetailBefore(last.b)

\* Reached: an error that is not a *ErrorResponse merged with a 404, which
\* takes the 500 case.
C8_Witness ==
    /\ BothGiven
    /\ last.a.t = "error" /\ last.b.t = "ptr"
    /\ ArgB.Status = 404

\* What the random source may have handed a helper.
AnyRead == {SourceRead(src, k) : src \in Sources, k \in 0..MaxHeap}

\* The last call merged a MissingParamError(name) with an
\* InvalidParamTypeError(name2, val, expected), both as the helpers built
\* them.
MergedMissingWithInvalidType(name, name2, val, expected) ==
    /\ BothStructured
    /\ \E read \in AnyRead : ArgA = MissingParamError(name, read)
    /\ \E read \in AnyRead : ArgB = InvalidParamTypeError(name2, val, expected, read)

\* C9 as stated: the merge of the two helpers' errors is a 400
\* "invalid_request" with the two messages joined by "; " and 2 meta
\* entries.
C9_TwoMetaEntries ==
    MergedMissingWithInvalidType("id", "sort", Str("xx"), "integer") =>
        /\ Result.Status = 400
        /\ Result.Code = "invalid_request"
        /\ Result.Detail = MissingParamMsg("id") \o "; "
                             \o InvalidParamTypeMsg("sort", Str("xx"), "integer")
        /\ Len(Result.Meta) = 2

\* C9 amended: the same, with 4 meta entries: the one of MissingParamError
\* (name) followed by the three of InvalidParamTypeError (param, value,
\* expected).
C9_FourMetaEntries ==
    MergedMissingWithInvalidType("id", "sort", Str("xx"), "integer") =>
        /\ Result.Status = 400
        /\ Result.Code = "invalid_request"
        /\ Result.Detail = "missing required parameter \"id\"; "
                             \o "invalid value \"xx\" for parameter \"sort\", must be a integer"
        /\ Result.Meta = <<"name" :> Str("id"), "param" :> Str("sort"),
                           "value" :> Str("xx"), "expected" :> Str("integer")>>
        /\ Len(Result.Meta) = 4

C9_Witness ==
    /\ MergedMissingWithInvalidType("id", "sort", Str("xx"), "integer")
    /\ last.a # last.b

\* C10: a class function given n keyvals returns (it has no failing path)
\* a meta of ceil(n/2) entries, entry j the one-key map from the text of
\* key j to the value after it, or to "MISSING" for a last key without one.
C10_MetaPairs ==
    last.op = "Invoke" =>
        LET n == Len(last.keyvals)
        IN  /\ last.ret.t = "ptr"
            /\ 2 * Len(Result.Meta) \in {n, n + 1}
            /\ \A j \in 1..Len(Result.Meta) :
                   Result.Meta[j] = (SprintV(last.keyvals[2 * j - 1]) :>
                                       (IF 2 * j <= n THEN last.keyvals[2 * j]
                                                      ELSE Str("MISSING")))

\* Reached: a class function called with three keyvals, the third a key
\* without a value.
C10_Witness ==
    /\ last.op = "Invoke"
    /\ Len(last.keyvals) = 3
    /\ Len(Result.Meta) = 2
    /\ Result.Meta[2] = ("name" :> Str("MISSING"))

\* The six bytes newErrorID encoded for the struct at address i, when
\* every struct was built by a class function: the (i-1)-th read.
BytesOf(i) == ReadFull(SourceRead(source, i - 1))

\* The text a class function makes of each message the model passes it.
ExpectedDetail(message) ==
    CASE message = Str("boom") -> "boom"
      [] message = PlainErr("eof") -> "eof"
      [] message = Stringer("late") -> "late"
      [] message = IntVal(42) -> "42"

\* C11 as stated, for a random source that does not fail: the struct a
\* class function returns has the class's code and status, the coerced
\* message as detail, and a non-empty ID that no earlier call's struct has.
C11_IDsAllDistinct ==
    (last.op = "Invoke" /\ source # "failing") =>
        /\ Result.Code = last.class.Code
        /\ Result.Status = last.class.Status
        /\ Result.Detail = ExpectedDetail(last.message)
        /\ Result.ID # ""
        /\ \A i \in 1..Len(pre) : pre[i].ID # Result.ID

\* C11 amended: code, status and detail as stated; the ID is a token of 8
\* characters, and it equals the ID of an earlier call's struct only if
\* newErrorID encoded the same six bytes in both calls.
C11_IDsDistinctPerBytes ==
    last.op = "Invoke" =>
        /\ Result.Code = last.class.Code
        /\ Result.Status = last.class.Status
        /\ Result.Detail = ExpectedDetail(last.message)
        /\ Len(Result.ID) = 8
        /\ \A i \in 1..Len(pre) :
               (pre[i].ID = Result.ID) <=> (BytesOf(i) = BytesOf(last.ret.n))

\* Reached: a second call, of another class and with an int message, whose
\* ID differs from the first call's.
C11_Witness ==
    /\ last.op = "Invoke"
    /\ Len(pre) = 1
    /\ last.message = IntVal(42)
    /\ pre[1].Code # Result.Code
    /\ pre[1].ID # Result.ID

\* C12: when the random source fails to supply bytes, the ID a class
\* function gets from newErrorID is not the token of six zero bytes.
C12_NoZeroTokenOnFailure ==
    (last.op = "Invoke" /\ source = "failing") =>
        Result.ID # EncodeToString([i \in 1..IDBytes |-> 0])

\* C13: for three non-nil errors held as three instances,
\* MergeErrors(MergeErrors(a, b), c) ends with the status, code, detail,
\* meta and ID that MergeErrors(a, MergeErrors(b, c)) ends with from the
\* same heap.
C13_Associative ==
    last.op = "MergeThree" =>
        LET r == MergeRight(pre, last.a, last.b, last.c)
            right == r.heap[r.ret.n]
        IN  /\ Result.Status = right.Status
            /\ Result.Code = right.Code
            /\ Result.Detail = right.Detail
            /\ Result.Meta = right.Meta
            /\ Result.ID = right.ID

\* Reached: three structs merged, a 404, the 500 of code "internal" and
\* a 404 of another code: a 500 "internal_error".
C13_Witness ==
    /\ last.op = "MergeThree"
    /\ last.a.t = "ptr" /\ last.b.t = "ptr" /\ last.c.t = "ptr"
    /\ ArgA.Status = 404 /\ ArgB.Code = "internal"
    /\ pre[last.c.n].Status = 404 /\ pre[last.c.n].Code # ArgA.Code
    /\ Result.Status = 500 /\ Result.Code = "internal_error"

\* C14: MergeErrors on two distinct *ErrorResponse a and b allocates
\* nothing and returns a's own pointer; the struct behind it now holds the
\* merge (a's ID, the joined detail, a's meta followed by b's), and b and
\* every other struct are field for field what they were.
C14_InPlace ==
    (BothStructured /\ last.a # last.b) =>
        /\ last.ret = last.a
        /\ Len(heap) = Len(pre)
        /\ heap[last.a.n].ID = ArgA.ID
        /\ heap[last.a.n].Detail = ArgA.Detail \o "; " \o ArgB.Detail
        /\ Len(heap[last.a.n].Meta) >= Len(ArgA.Meta)
        /\ SubSeq(heap[last.a.n].Meta, 1, Len(ArgA.Meta)) = ArgA.Meta
        /\ \A i \in 1..Len(pre) : i # last.a.n => heap[i] = pre[i]

\* Reached: a 404 merged into a distinct 500 that had no meta, which
\* changed a's detail and meta and nothing of b.
C14_Witness ==
    /\ BothStructured /\ last.a # last.b
    /\ ArgA.Status = 500 /\ ArgB.Status = 400
    /\ ArgA.Meta = <<>> /\ ArgB.Meta # <<>>
    /\ heap[last.a.n] # ArgA
    /\ heap[last.a.n].Meta = ArgB.Meta
    /\ heap[last.b.n] = ArgB

====
